---- MODULE Spec2Model ----
(***************************************************************************)
(* splittr: a bill form (items, tax, total price) and the proportional tax *)
(* allocation computed on submit.                                          *)
(*                                                                         *)
(* Three variants of the form live in the repository:                      *)
(*   "App"  src/src/App.tsx (lines 382-703): the form with a disabled,     *)
(*          always derived total price field and the allocator onSubmit;   *)
(*   "V1"   src/unnamed/part_001: ItemsForm, the same form logic with the  *)
(*          submit handler passed in as a prop;                            *)
(*   "V2"   src/unnamed/part_002: ItemsForm with an editable total price   *)
(*          field and the isManualTotal mode flag.                         *)
(* All three render the rows with Item of components/item/item.tsx.        *)
(*                                                                         *)
(* JavaScript numbers are modelled in exact arithmetic: a number is a      *)
(* fraction n/d in lowest terms with d > 0, and the three IEEE specials    *)
(* are the fractions with d = 0 (NaN = 0/0, Infinity = 1/0, -Infinity =    *)
(* -1/0). Rounding of doubles and the sign of zero are not modelled.       *)
(***************************************************************************)
EXTENDS Integers, Sequences, FiniteSets, TLC

VARIABLES
    variant,        \* which form is mounted: "App", "V1" or "V2"
    items,          \* form value items: sequence of [name, price]
    tax,            \* form value tax
    totalPrice,     \* form value totalPrice
    isManualTotal,  \* V2's mode flag (useState)
    itemizedItems,  \* App's itemized result (useState)
    onSubmitCall,   \* <<values>> when the last event called onSubmit(values), else <<>>
    probeLines,     \* the itemized results of two submits of ProbeValues
    totalEdited,    \* the user edited the total price field since the last
                    \* item price or tax edit
    rejected,       \* the messages of the validation that stopped the last
                    \* event's submit, {} when it stopped none
    effectStopped,  \* the runs of the total price effect after the last
                    \* event stopped within MaxEffectRuns runs
    formEvent,      \* ItemsForm: the kind of the last event, and the mode
                    \* flag it found
    clipboard,      \* the text on the system clipboard, as its pieces
    writeResult,    \* how the last clipboard write ended
    toastTitle,     \* the title of the toast the last copy raised, "" for none
    unhandled,      \* the last copy ended in an unhandled rejection or an
                    \* uncaught exception
    open,           \* per item row, whether its Collapsible is open
    focusCall       \* the input the last event called focus() on, if any

\* the form: what useForm and useState hold while the user edits
formVars == <<items, tax, totalPrice, isManualTotal>>

\* what App's onSubmit leaves behind
resultVars == <<itemizedItems, probeLines>>

\* what the copy buttons leave behind
copyVars == <<clipboard, writeResult, toastTitle, unhandled>>

\* what the rows hold in the document
rowVars == <<open, focusCall>>

vars ==
    <<variant, formVars, resultVars, onSubmitCall, totalEdited, rejected,
      effectStopped, formEvent, copyVars, rowVars>>

---------------------------------------------------------------------------
(* Bounds and input alphabets *)

MaxItems == 2

\* The Enter key may append one row more than the Add Item button, so that
\* it has room to append while a later row exists.
MaxRows == MaxItems + 1

\* the runs of the total price effect followed after one event
MaxEffectRuns == 3

\* What the user types. A name is a string; the text of a type="number"
\* input (e.target.value) is the empty string or a decimal numeral, written
\* as a sequence of characters.

\* App: row k can be renamed to the k-th of these names
AppRowNames == <<"A", "B", "C", "D">>

\* App: the texts typed into the price input of row k
AppPriceTexts ==
    <<{<<"5", "0">>, <<"7", "5">>}, {<<"2", "5">>, <<"5", "0">>},
      {<<"2", "5">>}, {<<"5", "0">>}>>

AppTaxTexts == {<<"1", "0">>, <<"2", "0">>}

\* App, for the checks of the validation: names, prices and taxes that the
\* schema rejects beside ones it accepts
ValidationNameTexts == {"", "A"}

ValidationPriceTexts == {<<>>, <<"-", "5">>, <<"2", "5">>}

ValidationTaxTexts == {<<>>, <<"1", "0">>}

\* App, for the checks of the copy buttons: the texts typed into the price
\* input of row k, and into the tax input
CopyPriceTexts == <<{<<"2", "5">>}, {<<"5", "0">>}, {<<"2", "5">>}>>

CopyTaxTexts == {<<"1", "0">>}

\* how navigator.clipboard.writeText(text) can end: the text is written, the
\* promise is rejected (permission denied), or navigator.clipboard is
\* undefined (unsupported) and the call throws a TypeError
ClipboardResults == {"written", "denied", "unsupported"}

\* ItemsForm, for the checks of the Enter key
KeysPriceTexts == {<<>>, <<"2", "5">>}

\* ItemsForm (V1 and V2)
FormNameTexts == {"A", ""}

FormPriceTexts == {<<>>, <<"2", "5">>, <<"5", "0">>}

FormTaxTexts == {<<>>, <<"1", "0">>}

FormTotalTexts == {<<>>, <<"6", "0">>}

---------------------------------------------------------------------------
(* JavaScript numbers *)

NaN == [n |-> 0, d |-> 0]

Infinity == [n |-> 1, d |-> 0]

Abs(x) == IF x < 0 THEN -x ELSE x

Sign(x) == IF x > 0 THEN 1 ELSE IF x < 0 THEN -1 ELSE 0

RECURSIVE GCD(_, _)
GCD(a, b) == IF b = 0 THEN a ELSE GCD(b, a % b)

\* The number n/d, d any integer (d = 0 gives NaN or an infinity).
Norm(n, d) ==
    IF d = 0
    THEN [n |-> Sign(n), d |-> 0]
    ELSE LET g == GCD(Abs(n), Abs(d))
         IN  [n |-> (Sign(d) * n) \div g, d |-> Abs(d) \div g]

Num(k) == [n |-> k, d |-> 1]

IsNaN(a) == a = NaN

IsFinite(a) == a.d # 0

\* a + b
Add(a, b) ==
    IF IsNaN(a) \/ IsNaN(b) THEN NaN
    ELSE IF a.d = 0 /\ b.d = 0 THEN (IF a = b THEN a ELSE NaN)
    ELSE IF a.d = 0 THEN a
    ELSE IF b.d = 0 THEN b
    ELSE Norm(a.n * b.d + b.n * a.d, a.d * b.d)

Neg(a) == [n |-> -a.n, d |-> a.d]

\* a - b
Sub(a, b) == Add(a, Neg(b))

\* a * b (Infinity * 0 is NaN)
Mul(a, b) == Norm(a.n * b.n, a.d * b.d)

\* a / b (0 / 0 is NaN, x / 0 is an infinity with the sign of x)
Div(a, b) ==
    LET s == IF b.n < 0 THEN -1 ELSE 1
    IN  Norm(s * a.n * b.d, a.d * Abs(b.n))

\* a === b and a !== b: NaN is not equal to itself
StrictEq(a, b) == ~IsNaN(a) /\ ~IsNaN(b) /\ a = b

\* a comparison of state and dependencies by ===
SameValueTripleEquals(a, b) == ~IsNaN(a) /\ ~IsNaN(b) /\ a = b

\* Object.is(a, b) on numbers, React's comparison of state and dependencies
SameValue(a, b) == a = b

\* a >= 0
GeZero(a) == ~IsNaN(a) /\ a.n >= 0

\* x without the || 0
OrZeroKeepingNaN(a) == a

\* x || 0: NaN and 0 are falsy
OrZero(a) == IF IsNaN(a) THEN Num(0) ELSE a

---------------------------------------------------------------------------
(* parseFloat on the text of a number input: an optional minus sign, a run *)
(* of digits, an optional point and a second run; NaN without any digit.   *)

Digits == <<"0", "1", "2", "3", "4", "5", "6", "7", "8", "9">>

IsDigit(c) == \E k \in 1..10 : Digits[k] = c

DigitVal(c) == (CHOOSE k \in 1..10 : Digits[k] = c) - 1

RECURSIVE ScanDigits(_, _)
ScanDigits(s, i) ==
    IF i <= Len(s) /\ IsDigit(s[i]) THEN ScanDigits(s, i + 1) ELSE i

RECURSIVE DigitsValue(_, _, _)
DigitsValue(s, i, j) ==
    IF j < i THEN 0 ELSE 10 * DigitsValue(s, i, j - 1) + DigitVal(s[j])

RECURSIVE Pow10(_)
Pow10(k) == IF k = 0 THEN 1 ELSE 10 * Pow10(k - 1)

parseFloat(s) ==
    LET neg    == Len(s) >= 1 /\ s[1] = "-"
        b      == IF neg THEN 2 ELSE 1
        e      == ScanDigits(s, b)
        hasDot == e <= Len(s) /\ s[e] = "."
        f      == IF hasDot THEN ScanDigits(s, e + 1) ELSE e
        nInt   == e - b
        nFrac  == IF hasDot THEN f - (e + 1) ELSE 0
        mag    == Norm(DigitsValue(s, b, e - 1) * Pow10(nFrac)
                         + DigitsValue(s, e + 1, f - 1),
                       Pow10(nFrac))
    IN  IF nInt + nFrac = 0 THEN NaN
        ELSE IF neg THEN Neg(mag) ELSE mag

---------------------------------------------------------------------------
(* The form state *)

\* defaultValues of useForm: one item "Item 1" at price 0, tax 0, total 0
defaultValues ==
    [items |-> <<[name |-> "Item 1", price |-> Num(0)]>>,
     tax |-> Num(0),
     totalPrice |-> Num(0)]

\* watchItems.reduce((acc, { price }) => acc + price, 0)
RECURSIVE SumPrices(_)
SumPrices(its) ==
    IF its = <<>> THEN Num(0)
    ELSE Add(SumPrices(SubSeq(its, 1, Len(its) - 1)), its[Len(its)].price)

\* an item named by the length of the list before the append
NewItemNamedByLength(its) ==
    [name |-> "Item " \o ToString(Len(its)), price |-> Num(0)]

\* append({ name: `Item ${fields.length + 1}`, price: 0 })
NewItem(its) == [name |-> "Item " \o ToString(Len(its) + 1), price |-> Num(0)]

\* useFieldArray's remove(index)
RemoveAt(its, i) == SubSeq(its, 1, i - 1) \o SubSeq(its, i + 1, Len(its))

\* a Remove button rendered on every row
canRemoveAlways == TRUE

\* canRemove={fields.length > 1}: the Remove button is rendered only then
canRemove == Len(items) > 1

\* The current form values, as handleSubmit hands them to the resolver.
FormValues == [items |-> items, tax |-> tax, totalPrice |-> totalPrice]

\* field.onChange / form.setValue on one field of one item
SetName(its, i, nm) == [its EXCEPT ![i].name = nm]

SetPrice(its, i, p) == [its EXCEPT ![i].price = p]

\* document.querySelector(`[data-index='${row - 1}-name']`), and likewise
\* for -price, finds an input: the row exists and its CollapsibleContent,
\* which holds both inputs, is rendered
querySelector(its, op, row) == row \in 1..Len(its) /\ op[row]

\* the focus() call on the name or price input of a row
Focused(row, field, deferred) ==
    <<[row |-> row, field |-> field, deferred |-> deferred]>>

\* a handler that submits on every Enter
KeySubmitsOnEveryEnter(fieldType, meta) == TRUE

\* the branches of handleKeyDown that call form.handleSubmit(onSubmit)():
\* e.metaKey && e.key === "Enter", and Enter with fieldType === "totals"
KeySubmits(fieldType, meta) == meta \/ fieldType = "totals"

---------------------------------------------------------------------------
(* Validation: zodResolver(formSchema). The stored prices, tax and total   *)
(* are numbers already; the schema's preprocess step (parseFloat of a      *)
(* number, through its string form) gives each number back, NaN included,  *)
(* and z.number() rejects NaN.                                             *)

\* an item schema that takes any price
itemObjectAnyPrice(item) == item.name # ""

\* itemObject: name nonempty, price a number >= 0
itemObject(item) ==
    /\ item.name # ""
    /\ ~IsNaN(item.price)
    /\ GeZero(item.price)

\* formSchema: every item passes itemObject, tax and totalPrice are numbers
formSchema(values) ==
    /\ \A k \in 1..Len(values.items) : itemObject(values.items[k])
    /\ ~IsNaN(values.tax)
    /\ ~IsNaN(values.totalPrice)

\* the value undefined, which the schema's preprocess step gives for the
\* string "" and z.number() rejects as a missing value
Undefined == [n |-> 0, d |-> -1]

IsUndefined(a) == a = Undefined

\* the messages of itemObject's issues
itemObjectMessages(item) ==
    (IF item.name = "" THEN {"Name is required"} ELSE {})
    \cup (IF IsUndefined(item.price) THEN {"Price is required"}
          ELSE IF IsNaN(item.price) THEN {"Price must be a number"}
          ELSE IF ~GeZero(item.price) THEN {"Price cannot be less than 0"}
          ELSE {})

\* .refine((data) => data.tax !== undefined || data.totalPrice !== undefined)
refine(data) == ~IsUndefined(data.tax) \/ ~IsUndefined(data.totalPrice)

\* the messages of formSchema's issues: those of the object's fields, and
\* the refinement's message when the object itself parsed without an issue
formSchemaMessages(values) ==
    LET fields ==
            UNION {itemObjectMessages(values.items[k]) :
                       k \in 1..Len(values.items)}
            \cup (IF IsNaN(values.tax) \/ IsUndefined(values.tax)
                  THEN {"Tax must be a number"} ELSE {})
            \cup (IF IsNaN(values.totalPrice) \/ IsUndefined(values.totalPrice)
                  THEN {"Total Price must be a number"} ELSE {})
    IN  IF fields # {} THEN fields
        ELSE IF ~refine(values)
             THEN {"Either tax or total price is required"}
             ELSE {}

---------------------------------------------------------------------------
(* The allocator: App's onSubmit *)

\* the share taken of the tax-inclusive total: (price / totalPrice) * tax
taxProportionOfTotal(price, t, total) == Mul(Div(price, total), t)

\* the division grouped to the right: price / ((totalPrice - tax) * tax)
taxProportionRightGrouped(price, t, total) ==
    Div(price, Mul(Sub(total, t), t))

\* const taxProportion = (price / (totalPrice - tax)) * tax
taxProportion(price, t, total) == Mul(Div(price, Sub(total, t)), t)

\* a line whose total is the tax share alone
itemizedLineTotalIsShare(item, t, total) ==
    LET tp == taxProportion(item.price, t, total)
    IN  [name |-> item.name, price |-> item.price, tax |-> tp, total |-> tp]

\* { name, price, tax: taxProportion, total: price + taxProportion }
itemizedLine(item, t, total) ==
    LET tp == taxProportion(item.price, t, total)
    IN  [name |-> item.name, price |-> item.price,
         tax |-> tp, total |-> Add(item.price, tp)]

\* the lines in reverse order of the items
onSubmitReversed(values) ==
    [k \in 1..Len(values.items) |->
        itemizedLine(values.items[Len(values.items) + 1 - k],
                     values.tax, values.totalPrice)]

\* items.map(...) followed by setItemizedItems(itemized)
onSubmit(values) ==
    [k \in 1..Len(values.items) |->
        itemizedLine(values.items[k], values.tax, values.totalPrice)]

\* The input whose first itemized result is remembered in probeLines.
ProbeValues ==
    [items |-> <<[name |-> "Item 1", price |-> Num(50)]>>,
     tax |-> Num(10),
     totalPrice |-> Num(60)]

\* probeLines remembers the result of the first submit of ProbeValues and,
\* beside it, the result of the first later submit of ProbeValues that
\* replaces a different stored result.
RecordsProbe ==
    /\ FormValues = ProbeValues
    /\ \/ probeLines = <<>>
       \/ Len(probeLines) = 1 /\ itemizedItems # probeLines[1]

\* a submit that appends its lines to the stored ones
AppHandleSubmitAppending ==
    /\ IF formSchema(FormValues)
       THEN /\ onSubmitCall' = <<FormValues>>
            /\ itemizedItems' = itemizedItems \o onSubmit(FormValues)
            /\ probeLines' = IF RecordsProbe
                             THEN Append(probeLines, itemizedItems')
                             ELSE probeLines
       ELSE /\ onSubmitCall' = <<>>
            /\ UNCHANGED resultVars
    /\ rejected' = formSchemaMessages(FormValues)

\* a submit that clears the stored lines when the validation fails
AppHandleSubmitClearingOnFailure ==
    /\ IF formSchema(FormValues)
       THEN /\ onSubmitCall' = <<FormValues>>
            /\ itemizedItems' = onSubmit(FormValues)
            /\ probeLines' = IF RecordsProbe
                             THEN Append(probeLines, itemizedItems')
                             ELSE probeLines
       ELSE /\ onSubmitCall' = <<>>
            /\ itemizedItems' = <<>>
            /\ UNCHANGED probeLines
    /\ rejected' = formSchemaMessages(FormValues)

\* form.handleSubmit(onSubmit)() in App: validate, then call onSubmit with
\* the values; a failed validation shows the messages and calls nothing.
AppHandleSubmit ==
    /\ IF formSchema(FormValues)
       THEN /\ onSubmitCall' = <<FormValues>>
            /\ itemizedItems' = onSubmit(FormValues)
            /\ probeLines' = IF RecordsProbe
                             THEN Append(probeLines, itemizedItems')
                             ELSE probeLines
       ELSE /\ onSubmitCall' = <<>>
            /\ UNCHANGED resultVars
    /\ rejected' = formSchemaMessages(FormValues)

---------------------------------------------------------------------------
(* App (src/src/App.tsx, third version) *)

\* an effect that leaves the tax out of the total
AppTotalEffectWithoutTax(its, t, total) == SumPrices(its)

\* useEffect(() => { const total = watchItems.reduce(...);
\*                   form.setValue("totalPrice", total + watchTax) }, [...]):
\* the value one run of the effect leaves in totalPrice.
AppTotalEffect(its, t, total) == Add(SumPrices(its), t)

\* React runs the effect after the render that follows an event, and again
\* after each render in which a dependency (here watchTotalPrice, which the
\* effect itself writes) differs by Object.is from the previous render's;
\* the next user event is handled once no run is pending. The value of
\* totalPrice when the runs have stopped, n runs having been made; at most
\* MaxEffectRuns runs are followed.
RECURSIVE AppEffectLoop(_, _, _, _)
AppEffectLoop(its, t, total, n) ==
    IF n = MaxEffectRuns THEN total
    ELSE LET written == AppTotalEffect(its, t, total)
         IN  IF SameValue(written, total) THEN total
             ELSE AppEffectLoop(its, t, written, n + 1)

\* an effect that never runs
AppEffectNotRun(its, t, total) == total

AppFlushEffect(its, t, total) == AppEffectLoop(its, t, total, 0)

\* The runs stop: one of the first MaxEffectRuns runs writes the value that
\* totalPrice has already.
RECURSIVE AppEffectStops(_, _, _, _)
AppEffectStops(its, t, total, n) ==
    IF n = MaxEffectRuns THEN FALSE
    ELSE LET written == AppTotalEffect(its, t, total)
         IN  IF SameValue(written, total) THEN TRUE
             ELSE AppEffectStops(its, t, written, n + 1)

\* Item's name input: {...field}
AppNameChange(i, nm) ==
    /\ variant = "App"
    /\ i \in 1..Len(items)
    /\ open[i]
    /\ items' = SetName(items, i, nm)
    /\ totalPrice' = AppFlushEffect(items', tax, totalPrice)
    /\ effectStopped' = AppEffectStops(items', tax, totalPrice, 0)
    /\ onSubmitCall' = <<>>
    /\ rejected' = {}
    /\ focusCall' = <<>>
    /\ UNCHANGED <<variant, open, tax, isManualTotal, resultVars, totalEdited, formEvent, copyVars>>

\* Item's price input: field.onChange(parseFloat(e.target.value))
AppPriceChange(i, text) ==
    /\ variant = "App"
    /\ i \in 1..Len(items)
    /\ open[i]
    /\ items' = SetPrice(items, i, parseFloat(text))
    /\ totalPrice' = AppFlushEffect(items', tax, totalPrice)
    /\ effectStopped' = AppEffectStops(items', tax, totalPrice, 0)
    /\ onSubmitCall' = <<>>
    /\ rejected' = {}
    /\ focusCall' = <<>>
    /\ UNCHANGED <<variant, open, tax, isManualTotal, resultVars, totalEdited, formEvent, copyVars>>

\* the tax input: field.onChange(parseFloat(e.target.value))
AppTaxChange(text) ==
    /\ variant = "App"
    /\ tax' = parseFloat(text)
    /\ totalPrice' = AppFlushEffect(items, tax', totalPrice)
    /\ effectStopped' = AppEffectStops(items, tax', totalPrice, 0)
    /\ onSubmitCall' = <<>>
    /\ rejected' = {}
    /\ focusCall' = <<>>
    /\ UNCHANGED <<variant, open, items, isManualTotal, resultVars, totalEdited, formEvent, copyVars>>

\* the Add Item button
AppAddItem ==
    /\ variant = "App"
    /\ Len(items) < MaxItems
    /\ items' = Append(items, NewItem(items))
    /\ totalPrice' = AppFlushEffect(items', tax, totalPrice)
    /\ effectStopped' = AppEffectStops(items', tax, totalPrice, 0)
    /\ onSubmitCall' = <<>>
    /\ rejected' = {}
    /\ open' = Append(open, TRUE)
    /\ focusCall' = <<>>
    /\ UNCHANGED <<variant, tax, isManualTotal, resultVars, totalEdited, formEvent, copyVars>>

\* Item's Remove button, rendered while canRemove
AppRemove(i) ==
    /\ variant = "App"
    /\ canRemove
    /\ i \in 1..Len(items)
    /\ open[i]
    /\ items' = RemoveAt(items, i)
    /\ totalPrice' = AppFlushEffect(items', tax, totalPrice)
    /\ effectStopped' = AppEffectStops(items', tax, totalPrice, 0)
    /\ onSubmitCall' = <<>>
    /\ rejected' = {}
    /\ open' = RemoveAt(open, i)
    /\ focusCall' = <<>>
    /\ UNCHANGED <<variant, tax, isManualTotal, resultVars, totalEdited, formEvent, copyVars>>

\* the Itemize button: <form onSubmit={form.handleSubmit(onSubmit)}>
AppSubmit ==
    /\ effectStopped' = TRUE
    /\ variant = "App"
    /\ AppHandleSubmit
    /\ focusCall' = <<>>
    /\ UNCHANGED <<variant, open, formVars, totalEdited, formEvent, copyVars>>

\* handleKeyDown(e, currentIndex, fieldType) for the Enter key in an input
\* that is rendered; i is the 1-based row (0 for the totals fields), meta is
\* e.metaKey. The callback of setTimeout(..., 0) runs after the render that
\* follows the append and before the next event: its focus() call is
\* recorded with the step, marked deferred; fields.length in it is the
\* length the handler saw, the 0-based index of the appended row.
AppKeyDown(i, fieldType, meta) ==
    /\ variant = "App"
    /\ \/ fieldType \in {"name", "price"} /\ i \in 1..Len(items) /\ open[i]
       \/ fieldType = "totals" /\ i = 0
    /\ IF KeySubmits(fieldType, meta)
       THEN /\ AppHandleSubmit
            /\ focusCall' = <<>>
            /\ UNCHANGED <<items, open>>
       ELSE /\ onSubmitCall' = <<>>
            /\ rejected' = {}
            /\ UNCHANGED resultVars
            /\ IF fieldType = "name"
               THEN /\ focusCall' = IF querySelector(items, open, i)
                                    THEN Focused(i, "price", FALSE)
                                    ELSE <<>>
                    /\ UNCHANGED <<items, open>>
               ELSE IF querySelector(items, open, i + 1)
                    THEN /\ focusCall' = Focused(i + 1, "name", FALSE)
                         /\ UNCHANGED <<items, open>>
                    ELSE /\ Len(items) < MaxRows
                         /\ items' = Append(items, NewItem(items))
                         /\ open' = Append(open, TRUE)
                         /\ focusCall' =
                                IF querySelector(items', open', Len(items) + 1)
                                THEN Focused(Len(items) + 1, "name", TRUE)
                                ELSE <<>>
    /\ totalPrice' = AppFlushEffect(items', tax, totalPrice)
    /\ effectStopped' = AppEffectStops(items', tax, totalPrice, 0)
    /\ UNCHANGED <<variant, tax, isManualTotal, totalEdited, formEvent, copyVars>>

InitValues ==
    /\ items = defaultValues.items
    /\ tax = defaultValues.tax
    /\ totalPrice = defaultValues.totalPrice
    /\ isManualTotal = FALSE
    /\ itemizedItems = <<>>
    /\ onSubmitCall = <<>>
    /\ probeLines = <<>>
    /\ totalEdited = FALSE
    /\ rejected = {}
    /\ effectStopped = TRUE
    /\ formEvent = [kind |-> "mount", wasManual |-> FALSE]
    /\ clipboard = <<>>
    /\ writeResult = "none"
    /\ toastTitle = ""
    /\ unhandled = FALSE
    /\ open = <<TRUE>>
    /\ focusCall = <<>>

InitApp == variant = "App" /\ InitValues

\* With metaKey the handler looks at neither currentIndex nor fieldType: one
\* field stands for all of them. The plain Enter key in a name or a price
\* input is followed in SpecAppValidation.
NextApp ==
    \/ \E i \in 1..MaxItems : AppNameChange(i, AppRowNames[i])
    \/ \E i \in 1..MaxItems :
          \E text \in AppPriceTexts[i] : AppPriceChange(i, text)
    \/ \E text \in AppTaxTexts : AppTaxChange(text)
    \/ AppAddItem
    \/ \E i \in 1..MaxItems : AppRemove(i)
    \/ AppSubmit
    \/ \E meta \in BOOLEAN : AppKeyDown(0, "totals", meta)

SpecApp == InitApp /\ [][NextApp]_vars

\* App with the inputs of the validation checks; the names are typed into
\* the first row. The plain Enter key in the price input of row MaxItems,
\* which can append a row beyond MaxItems, is followed in SpecFormKeys.
NextAppValidation ==
    \/ \E nm \in ValidationNameTexts : AppNameChange(1, nm)
    \/ \E i \in 1..MaxItems, text \in ValidationPriceTexts :
          AppPriceChange(i, text)
    \/ \E text \in ValidationTaxTexts : AppTaxChange(text)
    \/ AppAddItem
    \/ \E i \in 1..MaxItems : AppRemove(i)
    \/ AppSubmit
    \/ \E i \in 0..MaxItems, ft \in {"name", "totals"},
          meta \in BOOLEAN : AppKeyDown(i, ft, meta)
    \/ \E i \in 1..MaxItems : AppKeyDown(i, "price", TRUE)
    \/ \E i \in 1..(MaxItems - 1) : AppKeyDown(i, "price", FALSE)

SpecAppValidation == InitApp /\ [][NextAppValidation]_vars

---------------------------------------------------------------------------
(* The copy buttons of App. A text is kept as the sequence of its pieces; *)
(* the text itself is their concatenation.                                 *)

\* the last fractionDigits decimal digits of n, zeros included
RECURSIVE FractionDigits(_, _)
FractionDigits(n, fractionDigits) ==
    IF fractionDigits = 0 THEN ""
    ELSE FractionDigits(n \div 10, fractionDigits - 1) \o ToString(n % 10)

\* Number.prototype.toFixed(fractionDigits): with n the integer for which
\* n / 10^fractionDigits - x is as close to zero as possible (the larger n
\* if there are two), the digits of n with a point before the last
\* fractionDigits of them; a minus sign first for x < 0.
toFixed(a, fractionDigits) ==
    IF IsNaN(a) THEN "NaN"
    ELSE IF ~IsFinite(a) THEN (IF a.n < 0 THEN "-Infinity" ELSE "Infinity")
    ELSE LET scale == Pow10(fractionDigits)
             n     == (2 * Abs(a.n) * scale + a.d) \div (2 * a.d)
         IN  (IF a.n < 0 THEN "-" ELSE "")
             \o ToString(n \div scale)
             \o (IF fractionDigits = 0 THEN ""
                 ELSE "." \o FractionDigits(n % scale, fractionDigits))

\* a join that ends every line with the separator
joinTerminating(lines, sep) ==
    IF lines = <<>> THEN <<>>
    ELSE [k \in 1..(2 * Len(lines)) |->
             IF k % 2 = 1 THEN lines[(k + 1) \div 2] ELSE sep]

\* Array.prototype.join(sep): the elements with sep between them
join(lines, sep) ==
    IF lines = <<>> THEN <<>>
    ELSE [k \in 1..(2 * Len(lines) - 1) |->
             IF k % 2 = 1 THEN lines[(k + 1) \div 2] ELSE sep]

\* itemizedItems.map((item) => `${item.name}: $${item.total.toFixed(2)}`)
\*              .join("\n")
summary ==
    join([k \in 1..Len(itemizedItems) |->
             itemizedItems[k].name \o ": $"
                 \o toFixed(itemizedItems[k].total, 2)],
         "\n")

\* the Copy All Items and Totals button, rendered while there are lines:
\* navigator.clipboard.writeText(summary), not awaited, then the toast. A
\* TypeError leaves the handler before the toast; a rejection of the promise
\* has no handler.
AppCopyAll(result) ==
    /\ effectStopped' = TRUE
    /\ variant = "App"
    /\ Len(itemizedItems) > 0
    /\ writeResult' = result
    /\ clipboard' = IF result = "written" THEN summary ELSE clipboard
    /\ toastTitle' = IF result = "unsupported" THEN "" ELSE "Items Copied!"
    /\ unhandled' = (result # "written")
    /\ onSubmitCall' = <<>>
    /\ rejected' = {}
    /\ focusCall' = <<>>
    /\ UNCHANGED <<variant, open, formVars, resultVars, totalEdited, formEvent>>

\* CopyButton of line k, text = item.total.toFixed(2): handleCopy awaits
\* navigator.clipboard.writeText(text), then raises the toast. A TypeError
\* or a rejection rejects the promise handleCopy returns, which has no
\* handler.
AppCopyLine(k, result) ==
    /\ effectStopped' = TRUE
    /\ variant = "App"
    /\ k \in 1..Len(itemizedItems)
    /\ writeResult' = result
    /\ clipboard' = IF result = "written"
                    THEN <<toFixed(itemizedItems[k].total, 2)>>
                    ELSE clipboard
    /\ toastTitle' = IF result = "written" THEN "Copied!" ELSE ""
    /\ unhandled' = (result # "written")
    /\ onSubmitCall' = <<>>
    /\ rejected' = {}
    /\ focusCall' = <<>>
    /\ UNCHANGED <<variant, open, formVars, resultVars, totalEdited, formEvent>>

\* App with the inputs of the copy checks
NextAppCopy ==
    \/ \E i \in 1..MaxItems :
          \E text \in CopyPriceTexts[i] : AppPriceChange(i, text)
    \/ \E text \in CopyTaxTexts : AppTaxChange(text)
    \/ AppAddItem
    \/ AppSubmit
    \/ \E result \in ClipboardResults : AppCopyAll(result)
    \/ \E k \in 1..MaxItems, result \in ClipboardResults :
          AppCopyLine(k, result)

SpecAppCopy == InitApp /\ [][NextAppCopy]_vars

---------------------------------------------------------------------------
(* ItemsForm: V1 (src/unnamed/part_001) and V2 (src/unnamed/part_002) *)

\* V1's effect: form.setValue("totalPrice", total + watchTax), unguarded
V1TotalEffect(its, t, total) == Add(SumPrices(its), t)

\* an effect that recomputes the total in either mode
V2TotalEffectUnguarded(m, its, t, total) == Add(SumPrices(its), t)

\* V2's effect: if (!isManualTotal) { const newTotal = subtotal + watchTax;
\*   if (newTotal !== watchTotalPrice) form.setValue("totalPrice", newTotal) }
V2TotalEffect(m, its, t, total) ==
    IF ~m
    THEN LET newTotal == Add(SumPrices(its), t)
         IN  IF ~StrictEq(newTotal, total) THEN newTotal ELSE total
    ELSE total

\* One run of the mounted form's effect.
FormTotalEffect(m, its, t, total) ==
    IF variant = "V1" THEN V1TotalEffect(its, t, total)
    ELSE V2TotalEffect(m, its, t, total)

\* The effect's runs after an event, as in AppFlushEffect: isManualTotal,
\* watchItems and watchTax are not written by the effect, watchTotalPrice is.
RECURSIVE FormEffectLoop(_, _, _, _, _)
FormEffectLoop(m, its, t, total, n) ==
    IF n = MaxEffectRuns THEN total
    ELSE LET written == FormTotalEffect(m, its, t, total)
         IN  IF SameValue(written, total) THEN total
             ELSE FormEffectLoop(m, its, t, written, n + 1)

FormFlushEffect(m, its, t, total) == FormEffectLoop(m, its, t, total, 0)

RECURSIVE FormEffectStops(_, _, _, _, _)
FormEffectStops(m, its, t, total, n) ==
    IF n = MaxEffectRuns THEN FALSE
    ELSE LET written == FormTotalEffect(m, its, t, total)
         IN  IF SameValue(written, total) THEN TRUE
             ELSE FormEffectStops(m, its, t, written, n + 1)

\* form.handleSubmit(onSubmit)() in ItemsForm: onSubmit is the parent's prop.
FormHandleSubmit ==
    /\ onSubmitCall' = IF formSchema(FormValues) THEN <<FormValues>> ELSE <<>>
    /\ rejected' = formSchemaMessages(FormValues)

\* Item's name input: {...field}
FormNameChange(i, nm) ==
    /\ formEvent' = [kind |-> "name", wasManual |-> isManualTotal]
    /\ variant \in {"V1", "V2"}
    /\ i \in 1..Len(items)
    /\ open[i]
    /\ items' = SetName(items, i, nm)
    /\ totalPrice' = FormFlushEffect(isManualTotal, items', tax, totalPrice)
    /\ effectStopped' = FormEffectStops(isManualTotal, items', tax, totalPrice, 0)
    /\ onSubmitCall' = <<>>
    /\ rejected' = {}
    /\ focusCall' = <<>>
    /\ UNCHANGED <<variant, open, tax, isManualTotal, resultVars, totalEdited, copyVars>>

\* Item's price input: field.onChange(parseFloat(e.target.value)). Item takes
\* no onPriceChange prop: the one V2 passes is never called.
FormPriceChange(i, text) ==
    /\ formEvent' = [kind |-> "price", wasManual |-> isManualTotal]
    /\ variant \in {"V1", "V2"}
    /\ i \in 1..Len(items)
    /\ open[i]
    /\ items' = SetPrice(items, i, parseFloat(text))
    /\ totalPrice' = FormFlushEffect(isManualTotal, items', tax, totalPrice)
    /\ effectStopped' = FormEffectStops(isManualTotal, items', tax, totalPrice, 0)
    /\ onSubmitCall' = <<>>
    /\ rejected' = {}
    /\ totalEdited' = FALSE
    /\ focusCall' = <<>>
    /\ UNCHANGED <<variant, open, tax, isManualTotal, resultVars, copyVars>>

\* V1's tax input: field.onChange(parseFloat(e.target.value))
V1TaxChange(text) ==
    /\ formEvent' = [kind |-> "tax", wasManual |-> isManualTotal]
    /\ variant = "V1"
    /\ tax' = parseFloat(text)
    /\ totalPrice' = FormFlushEffect(isManualTotal, items, tax', totalPrice)
    /\ effectStopped' = FormEffectStops(isManualTotal, items, tax', totalPrice, 0)
    /\ onSubmitCall' = <<>>
    /\ rejected' = {}
    /\ totalEdited' = FALSE
    /\ focusCall' = <<>>
    /\ UNCHANGED <<variant, open, items, isManualTotal, resultVars, copyVars>>

\* a tax edit that leaves the mode flag as it is
handleTaxChangeKeepingMode(text) ==
    /\ formEvent' = [kind |-> "tax", wasManual |-> isManualTotal]
    /\ variant = "V2"
    /\ tax' = OrZero(parseFloat(text))
    /\ totalPrice' = FormFlushEffect(isManualTotal, items, tax', totalPrice)
    /\ effectStopped' = FormEffectStops(isManualTotal, items, tax', totalPrice, 0)
    /\ onSubmitCall' = <<>>
    /\ rejected' = {}
    /\ totalEdited' = FALSE
    /\ focusCall' = <<>>
    /\ UNCHANGED <<variant, open, items, isManualTotal, resultVars, copyVars>>

\* V2's tax input: setIsManualTotal(false); newTax = parseFloat(...) || 0
handleTaxChange(text) ==
    /\ formEvent' = [kind |-> "tax", wasManual |-> isManualTotal]
    /\ variant = "V2"
    /\ isManualTotal' = FALSE
    /\ tax' = OrZero(parseFloat(text))
    /\ totalPrice' = FormFlushEffect(isManualTotal', items, tax', totalPrice)
    /\ effectStopped' = FormEffectStops(isManualTotal', items, tax', totalPrice, 0)
    /\ onSubmitCall' = <<>>
    /\ rejected' = {}
    /\ totalEdited' = FALSE
    /\ focusCall' = <<>>
    /\ UNCHANGED <<variant, open, items, resultVars, copyVars>>

\* a total price edit that leaves the tax as it is
handleTotalPriceChangeKeepingTax(text) ==
    /\ effectStopped' = TRUE
    /\ formEvent' = [kind |-> "total", wasManual |-> isManualTotal]
    /\ variant = "V2"
    /\ isManualTotal' = TRUE
    /\ totalPrice' = OrZero(parseFloat(text))
    /\ onSubmitCall' = <<>>
    /\ rejected' = {}
    /\ totalEdited' = TRUE
    /\ focusCall' = <<>>
    /\ UNCHANGED <<variant, open, items, tax, resultVars, copyVars>>

\* V2's total price input: setIsManualTotal(true); totalPrice = newTotal;
\* tax = newTotal - subtotal
handleTotalPriceChange(text) ==
    /\ formEvent' = [kind |-> "total", wasManual |-> isManualTotal]
    /\ variant = "V2"
    /\ LET newTotal == OrZero(parseFloat(text))
           subtotal == SumPrices(items)
       IN  /\ isManualTotal' = TRUE
           /\ tax' = Sub(newTotal, subtotal)
           /\ totalPrice' = FormFlushEffect(isManualTotal', items, tax', newTotal)
           /\ effectStopped' = FormEffectStops(isManualTotal', items, tax', newTotal, 0)
    /\ onSubmitCall' = <<>>
    /\ rejected' = {}
    /\ totalEdited' = TRUE
    /\ focusCall' = <<>>
    /\ UNCHANGED <<variant, open, items, resultVars, copyVars>>

\* the Add Item button
FormAddItem ==
    /\ formEvent' = [kind |-> "add", wasManual |-> isManualTotal]
    /\ variant \in {"V1", "V2"}
    /\ Len(items) < MaxItems
    /\ items' = Append(items, NewItem(items))
    /\ totalPrice' = FormFlushEffect(isManualTotal, items', tax, totalPrice)
    /\ effectStopped' = FormEffectStops(isManualTotal, items', tax, totalPrice, 0)
    /\ onSubmitCall' = <<>>
    /\ rejected' = {}
    /\ open' = Append(open, TRUE)
    /\ focusCall' = <<>>
    /\ UNCHANGED <<variant, tax, isManualTotal, resultVars, totalEdited, copyVars>>

\* Item's Remove button, rendered while canRemove
FormRemove(i) ==
    /\ formEvent' = [kind |-> "remove", wasManual |-> isManualTotal]
    /\ variant \in {"V1", "V2"}
    /\ canRemove
    /\ i \in 1..Len(items)
    /\ open[i]
    /\ items' = RemoveAt(items, i)
    /\ totalPrice' = FormFlushEffect(isManualTotal, items', tax, totalPrice)
    /\ effectStopped' = FormEffectStops(isManualTotal, items', tax, totalPrice, 0)
    /\ onSubmitCall' = <<>>
    /\ rejected' = {}
    /\ open' = RemoveAt(open, i)
    /\ focusCall' = <<>>
    /\ UNCHANGED <<variant, tax, isManualTotal, resultVars, totalEdited, copyVars>>

\* the Itemize button
FormSubmit ==
    /\ effectStopped' = TRUE
    /\ formEvent' = [kind |-> "submit", wasManual |-> isManualTotal]
    /\ variant \in {"V1", "V2"}
    /\ FormHandleSubmit
    /\ focusCall' = <<>>
    /\ UNCHANGED <<variant, open, formVars, resultVars, totalEdited, copyVars>>

\* handleKeyDown(e, currentIndex, fieldType) for the Enter key in an input
\* that is rendered; i is the 1-based row (0 for the totals fields), meta is
\* e.metaKey. The callback of setTimeout(..., 0) runs after the render that
\* follows the append and before the next event: its focus() call is
\* recorded with the step, marked deferred; fields.length in it is the
\* length the handler saw, the 0-based index of the appended row.
FormKeyDown(i, fieldType, meta) ==
    /\ formEvent' = [kind |-> "key", wasManual |-> isManualTotal]
    /\ variant \in {"V1", "V2"}
    /\ \/ fieldType \in {"name", "price"} /\ i \in 1..Len(items) /\ open[i]
       \/ fieldType = "totals" /\ i = 0
    /\ IF KeySubmits(fieldType, meta)
       THEN /\ FormHandleSubmit
            /\ focusCall' = <<>>
            /\ UNCHANGED <<items, open>>
       ELSE /\ onSubmitCall' = <<>>
            /\ rejected' = {}
            /\ IF fieldType = "name"
               THEN /\ focusCall' = IF querySelector(items, open, i)
                                    THEN Focused(i, "price", FALSE)
                                    ELSE <<>>
                    /\ UNCHANGED <<items, open>>
               ELSE IF querySelector(items, open, i + 1)
                    THEN /\ focusCall' = Focused(i + 1, "name", FALSE)
                         /\ UNCHANGED <<items, open>>
                    ELSE /\ Len(items) < MaxRows
                         /\ items' = Append(items, NewItem(items))
                         /\ open' = Append(open, TRUE)
                         /\ focusCall' =
                                IF querySelector(items', open', Len(items) + 1)
                                THEN Focused(Len(items) + 1, "name", TRUE)
                                ELSE <<>>
    /\ totalPrice' = FormFlushEffect(isManualTotal, items', tax, totalPrice)
    /\ effectStopped' = FormEffectStops(isManualTotal, items', tax, totalPrice, 0)
    /\ UNCHANGED <<variant, tax, isManualTotal, resultVars, totalEdited, copyVars>>

InitForm == variant \in {"V1", "V2"} /\ InitValues

\* The plain Enter key in the price input of row MaxItems, which can append
\* a row beyond MaxItems, is followed in SpecFormKeys.
NextForm ==
    \/ \E i \in 1..MaxItems, nm \in FormNameTexts : FormNameChange(i, nm)
    \/ \E i \in 1..MaxItems, text \in FormPriceTexts : FormPriceChange(i, text)
    \/ \E text \in FormTaxTexts : V1TaxChange(text)
    \/ \E text \in FormTaxTexts : handleTaxChange(text)
    \/ \E text \in FormTotalTexts : handleTotalPriceChange(text)
    \/ FormAddItem
    \/ \E i \in 1..MaxItems : FormRemove(i)
    \/ FormSubmit
    \/ \E i \in 0..MaxItems, ft \in {"name", "totals"},
          meta \in BOOLEAN : FormKeyDown(i, ft, meta)
    \/ \E i \in 1..MaxItems : FormKeyDown(i, "price", TRUE)
    \/ \E i \in 1..(MaxItems - 1) : FormKeyDown(i, "price", FALSE)

SpecForm == InitForm /\ [][NextForm]_vars

\* CollapsibleTrigger of row i: a click opens or closes the row's
\* CollapsibleContent; Collapsible is mounted defaultOpen
ToggleItem(i) ==
    /\ i \in 1..Len(items)
    /\ open' = [open EXCEPT ![i] = ~open[i]]
    /\ focusCall' = <<>>
    /\ formEvent' = IF variant = "App" THEN formEvent
                    ELSE [kind |-> "toggle", wasManual |-> isManualTotal]
    /\ onSubmitCall' = <<>>
    /\ rejected' = {}
    /\ effectStopped' = TRUE
    /\ UNCHANGED <<variant, formVars, resultVars, totalEdited, copyVars>>

\* ItemsForm with the inputs of the checks of the Enter key
NextFormKeys ==
    \/ \E i \in 1..MaxItems, text \in KeysPriceTexts : FormPriceChange(i, text)
    \/ FormAddItem
    \/ \E i \in 1..MaxItems : FormRemove(i)
    \/ \E i \in 1..MaxItems : ToggleItem(i)
    \/ FormSubmit
    \/ \E i \in 0..MaxItems, ft \in {"name", "price", "totals"},
          meta \in BOOLEAN : FormKeyDown(i, ft, meta)

SpecFormKeys == InitForm /\ [][NextFormKeys]_vars

---------------------------------------------------------------------------
(* The header of an item row (CollapsibleTrigger of Item) *)

\* useWatch({ control, name }): the watched value and its typeof, for the
\* path `items.${i}.${field}`, and for no name at all, which watches the
\* whole form
useWatch(i, field) ==
    IF field = "name"
    THEN [typeof |-> "string", value |-> items[i].name]
    ELSE IF field = "price"
    THEN [typeof |-> "number", value |-> items[i].price]
    ELSE [typeof |-> "object", value |-> FormValues]

\* the name prop of Item: ItemsForm passes `items.${index}.name`, App passes
\* none
nameProp == IF variant = "App" THEN "undefined" ELSE "name"

\* Item of src/src/components/item/item.tsx watches its name prop twice
currentName(i) == useWatch(i, nameProp)

currentPrice(i) == useWatch(i, nameProp)

\* the older Item of src/src/components/item.tsx watches
\* `items.${index}.name` and `items.${index}.price`
currentNameOlder(i) == useWatch(i, "name")

currentPriceOlder(i) == useWatch(i, "price")

\* {typeof currentName === "string" ? currentName : `Item ${index + 1}`}
headerName(i, watched) ==
    IF watched.typeof = "string" THEN watched.value
    ELSE "Item " \o ToString(i)

\* ${typeof currentPrice === "number" ? currentPrice : 0}
headerPrice(i, watched) ==
    IF watched.typeof = "number" THEN watched.value ELSE Num(0)

---------------------------------------------------------------------------
(* Every mounted form *)

Init == variant \in {"App", "V1", "V2"} /\ InitValues

Next == NextApp \/ NextForm

Spec == Init /\ [][Next]_vars

TypeOK ==
    /\ variant \in {"App", "V1", "V2"}
    /\ Len(items) \in 1..MaxRows
    /\ isManualTotal \in BOOLEAN
    /\ totalEdited \in BOOLEAN
    /\ Len(onSubmitCall) <= 1
    /\ Len(probeLines) <= 2
    /\ rejected \subseteq
           {"Name is required", "Price is required", "Price must be a number",
            "Price cannot be less than 0", "Tax is required",
            "Tax must be a number", "Total Price is required",
            "Total Price must be a number",
            "Either tax or total price is required"}
    /\ effectStopped \in BOOLEAN
    /\ formEvent.kind \in {"mount", "name", "price", "tax", "total", "add",
                           "remove", "submit", "key", "toggle"}
    /\ formEvent.wasManual \in BOOLEAN
    /\ writeResult \in {"none"} \cup ClipboardResults
    /\ toastTitle \in {"", "Copied!", "Items Copied!"}
    /\ unhandled \in BOOLEAN
    /\ Len(open) = Len(items)
    /\ \A k \in 1..Len(open) : open[k] \in BOOLEAN
    /\ Len(focusCall) <= 1

---------------------------------------------------------------------------
(* Properties of the allocator, checked under SpecApp *)

\* the values of the onSubmit call the last event made
Called == onSubmitCall[1]

Positive(a) == ~IsNaN(a) /\ a.n > 0

RECURSIVE SumTax(_)
SumTax(lines) ==
    IF lines = <<>> THEN Num(0)
    ELSE Add(SumTax(SubSeq(lines, 1, Len(lines) - 1)), lines[Len(lines)].tax)

\* C1: after every submit of validated values, line i's tax is price_i
\* divided by (totalPrice - tax), times tax: with D = totalPrice - tax
\* nonzero, tax_i * D = price_i * tax; with D zero the quotient is no number.
C1_TaxShareOfBackedOutSubtotal ==
    (variant = "App" /\ onSubmitCall # <<>>) =>
        \A k \in 1..Len(Called.items) :
            /\ k \in DOMAIN itemizedItems
            /\ LET D == Sub(Called.totalPrice, Called.tax)
                   share == itemizedItems[k].tax
               IN  IF IsFinite(D) /\ D.n # 0
                   THEN /\ IsFinite(share)
                        /\ Mul(share, D) = Mul(Called.items[k].price, Called.tax)
                   ELSE ~IsFinite(share)

C1_Witness ==
    /\ variant = "App" /\ onSubmitCall # <<>>
    /\ Len(Called.items) = 2
    /\ Positive(Called.items[1].price) /\ Positive(Called.items[2].price)
    /\ Called.items[1].price # Called.items[2].price
    /\ Positive(Called.tax)
    /\ Len(itemizedItems) = 2

\* C2: no itemized line with an undefined (NaN or infinite) tax or total is
\* ever stored: a submit whose divisor totalPrice - tax is zero ends in an
\* error instead.
C2_NoUndefinedLineStored ==
    variant = "App" =>
        \A k \in DOMAIN itemizedItems :
            IsFinite(itemizedItems[k].tax) /\ IsFinite(itemizedItems[k].total)

\* C3: after a submit of items whose prices sum to a positive subtotal, the
\* tax shares of the output lines sum to the submitted tax.
C3_SharesSumToTax ==
    (variant = "App" /\ onSubmitCall # <<>>
        /\ Positive(SumPrices(Called.items))) =>
        SumTax(itemizedItems) = Called.tax

C3_Witness ==
    /\ variant = "App" /\ onSubmitCall # <<>>
    /\ Len(Called.items) = 2
    /\ Positive(Called.items[1].price) /\ Positive(Called.items[2].price)
    /\ Positive(Called.tax)
    /\ Len(itemizedItems) = 2
    /\ itemizedItems[1].tax.d > 1

\* C4: every line a submit produces carries its item's name and price and
\* its total is price + tax, the line's own share, with nothing rounded (a
\* line whose share is NaN has the total NaN).
C4_LineCarriesItemAndTotal ==
    (variant = "App" /\ onSubmitCall # <<>>) =>
        \A k \in 1..Len(Called.items) :
            /\ k \in DOMAIN itemizedItems
            /\ itemizedItems[k].name = Called.items[k].name
            /\ itemizedItems[k].price = Called.items[k].price
            /\ IF IsNaN(itemizedItems[k].tax)
               THEN IsNaN(itemizedItems[k].total)
               ELSE StrictEq(itemizedItems[k].total,
                             Add(itemizedItems[k].price, itemizedItems[k].tax))

C4_Witness ==
    /\ variant = "App" /\ onSubmitCall # <<>>
    /\ \E k \in DOMAIN itemizedItems :
          /\ itemizedItems[k].name = "A"
          /\ Positive(itemizedItems[k].price)
          /\ Positive(itemizedItems[k].tax)
          /\ itemizedItems[k].total # itemizedItems[k].price

\* C5: the output has one line per submitted item, the k-th line being the
\* k-th item's.
C5_OneLinePerItemInOrder ==
    (variant = "App" /\ onSubmitCall # <<>>) =>
        /\ Len(itemizedItems) = Len(Called.items)
        /\ \A k \in 1..Len(itemizedItems) :
              /\ itemizedItems[k].name = Called.items[k].name
              /\ itemizedItems[k].price = Called.items[k].price

C5_Witness ==
    /\ variant = "App" /\ onSubmitCall # <<>>
    /\ Len(Called.items) = 2 /\ Len(itemizedItems) = 2
    /\ itemizedItems[1].name # itemizedItems[2].name
    /\ itemizedItems[1].price # itemizedItems[2].price

\* C6: two submits of equal values give equal lines, whatever was edited,
\* appended, removed or stored in between: every submit of ProbeValues
\* gives the lines its first submit gave.
C6_SameValuesSameLines ==
    /\ Len(probeLines) = 2 => probeLines[2] = probeLines[1]
    /\ (variant = "App" /\ onSubmitCall = <<ProbeValues>>) =>
           (probeLines # <<>> /\ itemizedItems = probeLines[1])

C6_Witness ==
    /\ variant = "App" /\ onSubmitCall = <<ProbeValues>>
    /\ Len(probeLines) = 2
    /\ itemizedItems = probeLines[1]

\* C7: the two worked examples. A=50, B=50, tax 10, total 110 gives tax 5
\* and total 55 for each; A=75, B=25, tax 20, total 120 gives A tax 15,
\* total 90 and B tax 5, total 30.
Example(pa, pb, t, total) ==
    [items |-> <<[name |-> "A", price |-> Num(pa)],
                 [name |-> "B", price |-> Num(pb)]>>,
     tax |-> Num(t), totalPrice |-> Num(total)]

ExampleLines(pa, ta, pb, tb) ==
    <<[name |-> "A", price |-> Num(pa), tax |-> Num(ta), total |-> Num(pa + ta)],
      [name |-> "B", price |-> Num(pb), tax |-> Num(tb), total |-> Num(pb + tb)]>>

C7_WorkedExamples ==
    /\ onSubmitCall = <<Example(50, 50, 10, 110)>> =>
           itemizedItems = ExampleLines(50, 5, 50, 5)
    /\ onSubmitCall = <<Example(75, 25, 20, 120)>> =>
           itemizedItems = ExampleLines(75, 15, 25, 5)

C7_Witness ==
    /\ variant = "App"
    /\ onSubmitCall = <<Example(75, 25, 20, 120)>>
    /\ itemizedItems = ExampleLines(75, 15, 25, 5)

C7_WitnessEqualPrices ==
    /\ variant = "App"
    /\ onSubmitCall = <<Example(50, 50, 10, 110)>>
    /\ itemizedItems = ExampleLines(50, 5, 50, 5)

---------------------------------------------------------------------------
(* Properties of ItemsForm, checked under SpecForm *)

\* C8: the item list is never empty.
C8_AtLeastOneItem == Len(items) >= 1

\* The only row left is the one an append made: the first row was removed.
C8_Witness ==
    /\ variant = "V2"
    /\ Len(items) = 1
    /\ items[1].name = "Item 2"

\* C9: in V2, after every event, totalPrice = sum(item prices) + tax
\* (stated for the states in which every item price is a number).
C9_TotalsConsistent ==
    (variant = "V2" /\ IsFinite(SumPrices(items))) =>
        StrictEq(totalPrice, Add(SumPrices(items), tax))

\* an item price edit: same rows, some price changed
PriceEdited ==
    /\ Len(items') = Len(items)
    /\ \E k \in 1..Len(items) : items'[k].price # items[k].price

\* C10: while the user has not edited the total price field since the last
\* item price or tax edit, an event that changes an item price or the tax
\* leaves totalPrice = sum(item prices) + tax.
C10_AutoTotalRecomputed ==
    [][(~totalEdited /\ ~totalEdited' /\ (PriceEdited \/ tax' # tax)) =>
          SameValue(totalPrice', Add(SumPrices(items'), tax'))]_vars

\* While isManualTotal is false, totalPrice = sum(item prices) + tax.
AutoFlagTotalDerived ==
    ~isManualTotal => SameValue(totalPrice, Add(SumPrices(items), tax))

---------------------------------------------------------------------------
(* The two modes of V2, checked under SpecForm *)

\* the values a total price edit and a tax edit can store
TypedTotals == {OrZero(parseFloat(text)) : text \in FormTotalTexts}

TypedTaxes == {OrZero(parseFloat(text)) : text \in FormTaxTexts}

\* C11: a total price edit sets the mode flag, stores the typed total T and
\* sets tax to T - sum(item prices); while the flag stays set, only another
\* total price edit changes totalPrice.
C11_TotalEditEntersManualMode ==
    [][variant = "V2" =>
          /\ formEvent'.kind = "total" =>
                 /\ isManualTotal'
                 /\ totalPrice' \in TypedTotals
                 /\ tax' = Sub(totalPrice', SumPrices(items))
          /\ (isManualTotal /\ isManualTotal' /\ formEvent'.kind # "total") =>
                 totalPrice' = totalPrice]_vars

C11_Witness ==
    /\ variant = "V2"
    /\ formEvent.kind = "total"
    /\ isManualTotal
    /\ SumPrices(items) = Num(25)
    /\ totalPrice = Num(60)
    /\ tax = Num(35)

\* C12: an item price edit made while the mode flag is set clears the flag
\* and leaves totalPrice = sum(item prices) + tax.
C12_PriceEditReturnsToAuto ==
    [][(variant = "V2" /\ isManualTotal /\ formEvent'.kind = "price") =>
          /\ ~isManualTotal'
          /\ SameValue(totalPrice', Add(SumPrices(items'), tax'))]_vars

\* C13: a tax edit made while the mode flag is set clears the flag, stores
\* the typed tax and leaves totalPrice = sum(item prices) + tax.
C13_TaxEditReturnsToAuto ==
    [][(variant = "V2" /\ isManualTotal /\ formEvent'.kind = "tax") =>
          /\ ~isManualTotal'
          /\ tax' \in TypedTaxes
          /\ SameValue(totalPrice', Add(SumPrices(items'), tax'))]_vars

C13_Witness ==
    /\ variant = "V2"
    /\ formEvent = [kind |-> "tax", wasManual |-> TRUE]
    /\ ~isManualTotal
    /\ Positive(SumPrices(items))
    /\ tax = Num(10)
    /\ totalPrice = Add(SumPrices(items), Num(10))

\* C14: while the mode flag is set, a name edit, Add Item, Remove, the Enter
\* key and a submit leave the flag, totalPrice and tax as they are.
C14_ManualModePersists ==
    [][(variant = "V2" /\ isManualTotal
          /\ formEvent'.kind \in {"name", "add", "remove", "key", "submit"}) =>
          /\ isManualTotal'
          /\ totalPrice' = totalPrice
          /\ tax' = tax]_vars

C14_Witness ==
    /\ variant = "V2"
    /\ formEvent = [kind |-> "remove", wasManual |-> TRUE]
    /\ isManualTotal
    /\ totalPrice = Num(60)

---------------------------------------------------------------------------
(* Validation and the stored result, checked under SpecAppValidation *)

\* C15: onSubmit is called only with the form's values, and only when every
\* item has a nonempty name and a price that is a number >= 0 and tax and
\* totalPrice are numbers; a submit that the validation stops calls nothing.
C15_SubmitOnlyValidValues ==
    variant = "App" =>
        /\ onSubmitCall # <<>> =>
               /\ Called = FormValues
               /\ rejected = {}
               /\ \A k \in 1..Len(Called.items) :
                      /\ Called.items[k].name # ""
                      /\ IsFinite(Called.items[k].price)
                      /\ Called.items[k].price.n >= 0
               /\ IsFinite(Called.tax)
               /\ IsFinite(Called.totalPrice)
        /\ rejected # {} => onSubmitCall = <<>>

C15_Witness ==
    /\ variant = "App"
    /\ onSubmitCall = <<>>
    /\ "Name is required" \in rejected
    /\ "Price cannot be less than 0" \in rejected

\* C16: a submit with neither a tax nor a total price (both fields hold no
\* number) on otherwise valid items is rejected with the one message
\* "Either tax or total price is required".
C16_EitherMessageWhenBothAbsent ==
    (variant = "App" /\ rejected # {}
        /\ IsNaN(tax) /\ IsNaN(totalPrice)
        /\ \A k \in 1..Len(items) : itemObject(items[k])) =>
        rejected = {"Either tax or total price is required"}

\* C17: the stored lines change only in a step that calls onSubmit, and are
\* then the allocation of the submitted values, one line per item; every
\* other step, a submit stopped by the validation included, leaves them.
C17_ResultChangesOnlyOnSubmit ==
    [][variant = "App" =>
          /\ onSubmitCall' = <<>> => itemizedItems' = itemizedItems
          /\ onSubmitCall' # <<>> =>
                 /\ onSubmitCall' = <<FormValues>>
                 /\ Len(itemizedItems') = Len(items)
                 /\ \A k \in 1..Len(items) :
                        itemizedItems'[k] =
                            itemizedLine(items[k], tax, totalPrice)]_vars

C17_Witness ==
    /\ variant = "App"
    /\ rejected # {}
    /\ Len(itemizedItems) = 1
    /\ Len(items) = 2

---------------------------------------------------------------------------
(* The copy buttons, checked under SpecAppCopy *)

\* C18: a Copy All whose write succeeds leaves on the clipboard one line
\* per stored line, in order, each "<name>: $<total with 2 decimals>", with
\* a newline between two lines and none after the last; the lines with
\* totals 85/3 and 170/3 are copied as 28.33 and 56.67.
C18_CopyAllText ==
    [][(variant = "App" /\ copyVars' # copyVars
          /\ writeResult' = "written" /\ toastTitle' = "Items Copied!") =>
          /\ Len(clipboard') = 2 * Len(itemizedItems) - 1
          /\ \A k \in 1..Len(itemizedItems) :
                 /\ clipboard'[2 * k - 1] =
                        itemizedItems[k].name \o ": $"
                            \o toFixed(itemizedItems[k].total, 2)
                 /\ k < Len(itemizedItems) => clipboard'[2 * k] = "\n"
          /\ (/\ Len(itemizedItems) = 2
              /\ itemizedItems[1].total = Norm(85, 3)
              /\ itemizedItems[2].total = Norm(170, 3)) =>
                 clipboard' = <<"Item 1: $28.33", "\n", "Item 2: $56.67">>]_vars

C18_Witness ==
    /\ variant = "App"
    /\ writeResult = "written"
    /\ toastTitle = "Items Copied!"
    /\ clipboard = <<"Item 1: $28.33", "\n", "Item 2: $56.67">>

\* C19: a clipboard write that fails ends in no unhandled rejection and no
\* uncaught exception, and the user is told of a failure: a toast is
\* raised, and not one that reports a copy.
C19_CopyFailureReported ==
    (variant = "App" /\ writeResult \in {"denied", "unsupported"}) =>
        /\ ~unhandled
        /\ toastTitle \notin {"", "Copied!", "Items Copied!"}

---------------------------------------------------------------------------
(* The total price effect of ItemsForm, checked under SpecForm *)

\* C20: after every event of V1 and of V2 the runs of the total price
\* effect have stopped within MaxEffectRuns runs, and a further run would
\* write the value totalPrice has: also when a price is no number.
C20_EffectReachesFixpoint ==
    variant \in {"V1", "V2"} =>
        /\ effectStopped
        /\ FormTotalEffect(isManualTotal, items, tax, totalPrice) = totalPrice

C20_Witness ==
    /\ variant = "V2"
    /\ ~isManualTotal
    /\ formEvent.kind = "price"
    /\ IsNaN(SumPrices(items))
    /\ IsNaN(totalPrice)
    /\ effectStopped

---------------------------------------------------------------------------
(* The divisor of the allocation, checked under SpecApp *)

---------------------------------------------------------------------------
(* The toast of the copy buttons, checked under SpecAppCopy *)

\* C22: a toast that reports a copy ("Copied!", "Items Copied!") is up only
\* when the clipboard write it reports has succeeded.
C22_SuccessToastOnlyAfterWrite ==
    (variant = "App" /\ toastTitle \in {"Copied!", "Items Copied!"}) =>
        writeResult = "written"

---------------------------------------------------------------------------
(* The row headers of ItemsForm, checked under SpecForm *)

\* C25: the header of every item row shows the item's name and, when the
\* item's price is a number other than NaN, that price, with either
\* version of Item.
C25_HeaderShowsNameAndPrice ==
    \A i \in 1..Len(items) :
        /\ headerName(i, currentName(i)) = items[i].name
        /\ headerName(i, currentNameOlder(i)) = items[i].name
        /\ IsFinite(items[i].price) =>
               /\ headerPrice(i, currentPrice(i)) = items[i].price
               /\ headerPrice(i, currentPriceOlder(i)) = items[i].price

---------------------------------------------------------------------------
(* Unparsable totals in V2, checked under SpecForm *)

---------------------------------------------------------------------------
(* The Enter key of ItemsForm, checked under SpecFormKeys *)

\* the names append gives, by the length of the list before it
ItemNames == <<"Item 2", "Item 3", "Item 4", "Item 5">>

\* C23: the plain Enter key submits nothing; in the name input of row i it
\* focuses the price input of row i; in the price input of row i it focuses
\* the name input of row i + 1 when the list has such a row, and otherwise
\* appends one item and focuses, deferred, the name input of the new row;
\* the list changes in the last case only.
C23_EnterNavigates ==
    [][\A i \in 1..MaxRows :
          /\ FormKeyDown(i, "name", FALSE) =>
                 /\ onSubmitCall' = <<>>
                 /\ items' = items
                 /\ focusCall' = Focused(i, "price", FALSE)
          /\ FormKeyDown(i, "price", FALSE) =>
                 /\ onSubmitCall' = <<>>
                 /\ IF i < Len(items)
                    THEN /\ items' = items
                         /\ focusCall' = Focused(i + 1, "name", FALSE)
                    ELSE /\ items' =
                                Append(items, [name |-> ItemNames[Len(items)],
                                               price |-> Num(0)])
                         /\ focusCall' =
                                Focused(Len(items) + 1, "name", TRUE)]_vars

C24_WitnessAccepted ==
    /\ variant = "V2"
    /\ formEvent.kind = "key"
    /\ onSubmitCall # <<>>
    /\ focusCall = <<>>

---------------------------------------------------------------------------
(* Appends in ItemsForm, checked under SpecForm *)

\* C27: the Add Item button, and the Enter key when it changes the list,
\* add one item at the end, named "Item n+1" for a list of n items, at
\* price 0; the items before it stay as they are and, while the mode flag
\* is not set, so does totalPrice.
C27_AppendAddsOneItem ==
    [][(/\ variant \in {"V1", "V2"}
        /\ \/ formEvent'.kind = "add"
           \/ formEvent'.kind = "key" /\ items' # items) =>
          /\ Len(items') = Len(items) + 1
          /\ \A k \in 1..Len(items) : items'[k] = items[k]
          /\ items'[Len(items')] =
                 [name |-> ItemNames[Len(items)], price |-> Num(0)]
          /\ ~isManualTotal => SameValue(totalPrice', totalPrice)]_vars

C27_Witness ==
    /\ variant = "V2"
    /\ formEvent.kind = "key"
    /\ ~isManualTotal
    /\ Len(items) = 2
    /\ items[2] = [name |-> "Item 2", price |-> Num(0)]
    /\ items[1].price = Num(25)
    /\ tax = Num(10)
    /\ totalPrice = Num(35)
    /\ focusCall = Focused(2, "name", TRUE)

====
